---- MODULE Spec2Model ----
(***************************************************************************)
(* A state-machine model of st-utils (sensorthings_utils):                 *)
(*   - the connection workers of connections.py (HTTP polling and MQTT),   *)
(*     started, stopped and watched by main.push_available,                *)
(*   - the network monitor of monitor.py (counters, lock, report),         *)
(*   - the FROST client of frost.py (existence check, creation, upload).   *)
(***************************************************************************)
EXTENDS Integers, Sequences, FiniteSets, TLC

\* ------------------------------------------------------------------ bounds
MaxThreads == 2        \* thread objects ever created for one connection
MaxIters == 2          \* loop iterations ever started for one connection
MaxMsgs == 2           \* MQTT messages ever delivered to one connection
MaxObs == 2            \* observations carried by the largest payload
MaxRetries == 2        \* largest configured max_retries
MaxReports == 2        \* report cycles of the monitor
MaxCalls == 2          \* make_frost_object calls made for one entity
MaxUploads == 3        \* frost_observation_upload calls made
MaxCallers == 2        \* threads calling the monitor at the same time
MaxCounts == 2         \* monitor calls made by one thread
MaxConfigs == 2        \* sensor configuration files read by push_available
MaxRuns == 2           \* calls of initial_setup for the arrangement
MaxDevices == 2        \* devices in one Netatmo payload
MaxTransforms == 2     \* calls of to_stObservations on one transformer
MaxInits == 2          \* calls of _init_credentials for one application
MaxEnvWrites == 1      \* times the env file is written between the calls
QueueRetries == 2      \* retrieve's max_retries argument (10 when defaulted)

\* --------------------------------------------------------------- universe
HTTP == "netatmo-app"  \* application name of the NetatmoConnection
MQTT == "tts-app"      \* application name of the TTSConnection
Conns == {HTTP, MQTT}

\* rawData of a Netatmo pull: two distinct station lists
HttpPayloads == {"P1", "P2"}
\* what an uplink message can look like to TTSConnection.retrieve and
\* milesight_am308L.frost_upload
MqttPayloads == {"am308l", "am308l_missing_key", "am308l_bad_type",
                 "no_model", "other_model"}

VARIABLES
    sensor_connections, \* the connections push_available built from the configuration
    threads,        \* per connection: every Thread object ever created for it
    stop_event,     \* per connection: _stop_event.is_set()
    max_retries,    \* per connection: max_connection_retries / max_retries
    subscribed,     \* TTSConnection.subscribed
    payload_queue,  \* CredentialedMQTTSensorConnection.payload_queue
    joining,        \* the connection whose stop() is waiting in join(5), or "none"
    exited,         \* the process has ended through sys.exit(1)
    health_file,    \* number of times logs/health.html was written
    netmon,         \* the _NetworkMonitor singleton
    hist,           \* history: what was enqueued, dequeued, pulled, iterated
    store,          \* the entities held by the FROST server
    observations,   \* the datastream ids of the observations the server holds
    clock,          \* time.time()
    last_call,      \* the FROST client call that ended last, and how it ended
    calls,          \* per entity: the make_frost_object calls that returned
    lock,           \* the holder of _NetworkMonitor._lock, or 0
    callers,        \* the threads inside a monitor method: position, request, local v
    applied,        \* history: per counter, the sum of the increments written
    configs,        \* the sensor configuration files push_available has read
    conn_set,       \* the set of connection objects push_available is building
    setup,          \* initial_setup: whether it runs, its position, the runs made
    makers,         \* the threads inside make_frost_object: position, entity, check
    overlap,        \* history: a thread checked while another was before its POST
    app_payload,    \* the payload an application has delivered
    native,         \* what unpack made of it: a NativePayload, or the exception
    transformer,    \* what from_unpack made of one sensor's fields
    st_observations, \* what to_stObservations returned
    creds           \* the credentials file, the env file and os.environ of an application

connVars == <<sensor_connections, threads, stop_event, max_retries, subscribed,
              payload_queue, joining, exited, health_file, hist>>
frostVars == <<store, observations, clock, last_call, calls>>
lockVars == <<lock, callers, applied>>
cfgVars == <<configs, conn_set>>
raceVars == <<makers, overlap>>
pipeVars == <<app_payload, native, transformer, st_observations>>
vars == <<connVars, netmon, frostVars, lockVars, cfgVars, setup, raceVars, pipeVars, creds>>

\* ------------------------------------------------------------ the monitor
Sensors == {"s1", "s2"}
Keys == Conns \cup Sensors

NetmonInit ==
    [ expected_sensors |-> {},
      starting_application_threads |-> {},
      push_success |-> [k \in Keys |-> 0],
      push_fail |-> [k \in Keys |-> 0],
      last_push_time |-> [k \in Keys |-> 0],
      rejected_payloads |-> [k \in Keys |-> 0],
      payloads_received |-> [k \in Keys |-> 0],
      sensor_config_fail |-> 0,
      first_report_issued |-> FALSE ]

\* add_named_count, as one step: the body runs under the monitor's lock
add_named_count(m, attr, application, count) ==
    [m EXCEPT ![attr][application] = @ + count]

\* -------------------------------------------------- the sensor arrangement
Entity(ty, nm, sen) == [st_type |-> ty, name |-> nm, sensor |-> sen]

\* the entities of the arrangements: two sensors of one model on one thing,
\* each with a datastream of the same name
Entities ==
    { Entity("Sensor", "s1", ""), Entity("Sensor", "s2", ""),
      Entity("Thing", "t1", ""), Entity("Location", "l1", ""),
      Entity("ObservedProperty", "co2", ""),
      Entity("Datastream", "co2", "s1"), Entity("Datastream", "co2", "s2") }

NoCall == [op |-> "none", key |-> "none", result |-> "none"]

\* initial_setup has not been called
SetupIdle ==
    [ state |-> "idle", step |-> 0, runs |-> 0,
      clean |-> TRUE,          \* no request of this call has failed
      after_clean |-> FALSE ]  \* the call before this one returned, clean

\* no thread is inside make_frost_object
MakerIdle ==
    [pc |-> "idle", entity |-> Entity("none", "none", ""), exists |-> FALSE,
     done |-> 0]

\* nothing delivered, unpacked or transformed yet
NoPayload == [app |-> "none"]
NoNative == [status |-> "none"]
NoTransformer == [status |-> "none"]

\* a <SENSOR_TYPE>_CREDENTIALS variable: unset, or the applications it has
\* an entry for
Apps == {HTTP, "other-app"}
Variables == {[var |-> FALSE, apps |-> {}]} \cup [var : {TRUE}, apps : SUBSET Apps]

\* the credentials file of the application (absent, or what it holds), the
\* env file, the variable in os.environ, and whether the env file has the
\* later modification time
CredsStates ==
    { c \in [ file : {"absent", "old"}, env_exists : BOOLEAN, env : Variables,
              environ : Variables, newer : BOOLEAN, result : {"none"},
              path : {"none"}, calls : {0}, writes : {0} ] :
        /\ (~c.env_exists => c.env = [var |-> FALSE, apps |-> {}])
        /\ (c.newer => c.env_exists /\ c.file # "absent") }

\* the threads that call the monitor's methods
Callers == 1..MaxCallers
Idle == [pc |-> "idle", attr |-> "none", key |-> "none", count |-> 0, v |-> 0,
         done |-> 0]

\* the counters the callers add to: two kept per application, and the one
\* add_count is called for
Counters ==
    ({"push_fail", "payloads_received"} \X Conns)
        \cup {<<"sensor_config_fail", "none">>}

\* ------------------------------------------------------------ the threads
NewThread(c) ==
    [ name |-> c, alive |-> TRUE, pc |-> "top", restart_attempts |-> 0,
      attempts |-> 0, cur |-> "none", todo |-> 0, uploaded |-> 0,
      exit |-> "none", consec |-> 0,
      rejected |-> FALSE,   \* an upload of this iteration was refused
      critical |-> FALSE ]  \* logger.critical of the self-stop was called

is_alive(ths) == Len(ths) > 0 /\ ths[Len(ths)].alive

\* start(): a thread is created only when _thread is None or not alive
start_unguarded(c, ths) == Append(ths, NewThread(c))

start(c, ths) ==
    IF Len(ths) = 0 \/ ~ths[Len(ths)].alive
    THEN Append(ths, NewThread(c))
    ELSE ths

live_threads ==
    {"MainThread"} \cup {c \in Conns : \E i \in 1..Len(threads[c]) : threads[c][i].alive}

HistInit ==
    [ enqueued |-> [c \in Conns |-> << >>],      \* payloads put by on_message
      dequeued |-> [c \in Conns |-> << >>],      \* payloads got by retrieve
      last_pulled |-> [c \in Conns |-> "none"],  \* the latest pulled payload
      prev_pulled |-> [c \in Conns |-> "none"],  \* the one pulled before it
      iters |-> [c \in Conns |-> 0],             \* loop iterations started
      noop_start |-> [c \in Conns |-> FALSE],    \* start() found the worker alive
      join_timeout |-> FALSE,                    \* a join(5) returned on its timeout
      reports |-> 0,                             \* report cycles run
      health |-> [ issued |-> FALSE,             \* the lines of the last report:
                   non_responsive |-> {},        \* "Data never received from"
                   last_push |-> << >>,          \* the time read for each sensor
                   stored |-> 0 ],               \* observations stored by then
      nws |-> [ calls |-> 0, payload |-> << >>,  \* the last call of
                refused |-> {},                  \* netatmo_nws03.frost_upload
                uploaded |-> << >> ] ]

\* no call of the client or of the monitor made yet
InitClient ==
    /\ observations = << >>
    /\ clock = 1
    /\ last_call = NoCall
    /\ calls = [e \in Entities |-> 0]
    /\ lock = 0
    /\ callers = [t \in Callers |-> Idle]
    /\ applied = [k \in Counters |-> 0]
    /\ configs = << >>
    /\ conn_set = {}
    /\ setup = SetupIdle
    /\ makers = [t \in Callers |-> MakerIdle]
    /\ overlap = FALSE
    /\ app_payload = NoPayload
    /\ native = NoNative
    /\ transformer = NoTransformer
    /\ st_observations = << >>
    /\ creds = [ file |-> "absent", env_exists |-> FALSE,
                 env |-> [var |-> FALSE, apps |-> {}],
                 environ |-> [var |-> FALSE, apps |-> {}], newer |-> FALSE,
                 result |-> "none", path |-> "unset", calls |-> 0, writes |-> 0 ]

Init ==
    /\ sensor_connections \in {{c} : c \in Conns}
    /\ threads = [c \in Conns |-> << >>]
    /\ stop_event = [c \in Conns |-> FALSE]
    /\ max_retries \in {f \in [Conns -> 1..MaxRetries] : \A c \in Conns \ sensor_connections : f[c] = 1}
    /\ subscribed = [c \in Conns |-> FALSE]
    /\ payload_queue = [c \in Conns |-> << >>]
    /\ joining = "none"
    /\ exited = FALSE
    /\ health_file = 0
    /\ netmon = NetmonInit
    /\ hist = HistInit
    /\ store = {}
    /\ InitClient

\* ------------------------------------------------------- the worker loops
ObsCount(p) == IF p = "P1" THEN 1 ELSE MaxObs

\* the try body of _loop ended without an exception: restart_attempts = 0
loop_success_no_reset(t) ==
    [t EXCEPT !.consec = 0, !.pc = "top", !.cur = "none", !.todo = 0]

loop_success(t) ==
    [t EXCEPT !.restart_attempts = 0, !.consec = 0, !.pc = "top",
              !.cur = "none", !.todo = 0]

\* except Exception: restart_attempts += 1, then time.sleep(300)
loop_except(t) ==
    [t EXCEPT !.restart_attempts = @ + 1, !.consec = @ + 1,
              !.pc = "failsleep", !.cur = "none", !.todo = 0]

\* while not self._stop_event.is_set():
loop_condition_always(c) == TRUE

loop_condition(c) == ~stop_event[c]

\* the head of _loop: leave the loop, or enter retrieve(push)
LoopTop(c, i) ==
    /\ ~exited
    /\ c \in sensor_connections
    /\ i \in 1..Len(threads[c])
    /\ LET t == threads[c][i] IN
       /\ t.alive /\ t.pc = "top"
       /\ IF ~loop_condition(c)
          THEN /\ threads' = [threads EXCEPT ![c][i] =
                      [t EXCEPT !.alive = FALSE, !.pc = "done", !.exit = "stopflag"]]
               /\ UNCHANGED hist
          ELSE /\ hist.iters[c] < MaxIters
               /\ threads' = [threads EXCEPT ![c][i] =
                      [t EXCEPT !.uploaded = 0, !.rejected = FALSE,
                                !.attempts = IF c = MQTT THEN 1 ELSE 0,
                                !.pc = IF c = HTTP THEN "pull"
                                       ELSE IF subscribed[c] THEN "wait"
                                       ELSE "subscribe"]]
               /\ hist' = [hist EXCEPT !.iters[c] = @ + 1]
    /\ UNCHANGED <<sensor_connections, stop_event, max_retries, subscribed, payload_queue, joining,
                   exited, health_file, netmon>>
    /\ UNCHANGED <<frostVars, lockVars, cfgVars, creds, raceVars, pipeVars, setup>>

\* NetatmoConnection.retrieve: the request to the Netatmo API returns
HttpPull(i) ==
    /\ ~exited
    /\ i \in 1..Len(threads[HTTP])
    /\ LET t == threads[HTTP][i] IN
       /\ t.alive /\ t.pc = "pull"
       /\ \E r \in HttpPayloads \cup {"none", "transport_error"} :
            CASE r = "none" ->            \* rawData is None: ValueError
                   /\ threads' = [threads EXCEPT ![HTTP][i] = loop_except(t)]
                   /\ UNCHANGED <<netmon, hist>>
              [] r = "transport_error" -> \* TimeoutError, URLError, TypeError
                   /\ threads' = [threads EXCEPT ![HTTP][i] =
                          [t EXCEPT !.attempts = @ + 1, !.pc = "retry_sleep"]]
                   /\ UNCHANGED <<netmon, hist>>
              [] OTHER ->
                   /\ netmon' = add_named_count(netmon, "payloads_received", HTTP, 1)
                   /\ threads' = [threads EXCEPT ![HTTP][i] =
                          [t EXCEPT !.cur = r, !.todo = ObsCount(r), !.pc = "upload"]]
                   /\ hist' = [hist EXCEPT !.prev_pulled[HTTP] = hist.last_pulled[HTTP],
                                           !.last_pulled[HTTP] = r]
    /\ UNCHANGED <<sensor_connections, stop_event, max_retries, subscribed, payload_queue, joining,
                   exited, health_file>>
    /\ UNCHANGED <<frostVars, lockVars, cfgVars, creds, raceVars, pipeVars, setup>>

\* netatmo_nws03.frost_upload: one observation of the payload
HttpUpload(i) ==
    /\ ~exited
    /\ i \in 1..Len(threads[HTTP])
    /\ LET t == threads[HTTP][i]
           next(u) == [u EXCEPT !.todo = @ - 1,
                                !.pc = IF u.todo = 1 THEN "sleep" ELSE "upload"]
       IN
       /\ t.alive /\ t.pc = "upload"
       /\ \E r \in {"ok", "no_link", "post_fail", "url_error"} :
            CASE r = "ok" ->
                   /\ threads' = [threads EXCEPT ![HTTP][i] =
                          next([t EXCEPT !.uploaded = @ + 1])]
                   /\ UNCHANGED netmon
              [] r = "no_link" ->         \* find_datastream_url returned ""
                   /\ threads' = [threads EXCEPT ![HTTP][i] = next(t)]
                   /\ UNCHANGED netmon
              [] r = "post_fail" ->       \* make_frost_object raised
                   /\ threads' = [threads EXCEPT ![HTTP][i] =
                          next([t EXCEPT !.rejected = TRUE])]
                   /\ netmon' = add_named_count(netmon, "push_fail", HTTP, 1)
              [] OTHER ->                 \* filter_query raised URLError
                   /\ threads' = [threads EXCEPT ![HTTP][i] = loop_except(t)]
                   /\ UNCHANGED netmon
    /\ UNCHANGED <<sensor_connections, stop_event, max_retries, subscribed, payload_queue, joining,
                   exited, health_file, hist>>
    /\ UNCHANGED <<frostVars, lockVars, cfgVars, creds, raceVars, pipeVars, setup>>

\* NetatmoConnection.retrieve: time.sleep(30) after a transport error, return []
HttpRetrySleep(i) ==
    /\ ~exited
    /\ i \in 1..Len(threads[HTTP])
    /\ LET t == threads[HTTP][i] IN
       /\ t.alive /\ t.pc = "retry_sleep"
       /\ threads' = [threads EXCEPT ![HTTP][i] = [t EXCEPT !.pc = "sleep"]]
    /\ UNCHANGED <<sensor_connections, stop_event, max_retries, subscribed, payload_queue, joining,
                   exited, health_file, netmon, hist>>
    /\ UNCHANGED <<frostVars, lockVars, cfgVars, creds, raceVars, pipeVars, setup>>

\* CredentialedHTTPSensorConnection._loop: time.sleep(self.interval)
HttpSleep(i) ==
    /\ ~exited
    /\ i \in 1..Len(threads[HTTP])
    /\ LET t == threads[HTTP][i] IN
       /\ t.alive /\ t.pc = "sleep"
       /\ threads' = [threads EXCEPT ![HTTP][i] = loop_success(t)]
    /\ UNCHANGED <<sensor_connections, stop_event, max_retries, subscribed, payload_queue, joining,
                   exited, health_file, netmon, hist>>
    /\ UNCHANGED <<frostVars, lockVars, cfgVars, creds, raceVars, pipeVars, setup>>

\* the length of the sleep a worker is in
SleepOf(pc) ==
    CASE pc = "sleep" -> "interval"
      [] pc = "retry_sleep" -> "30"
      [] pc = "failsleep" -> "300"
      [] OTHER -> "none"

\* TTSConnection.subscribe: connect, subscribe, loop_start
Subscribe(i) ==
    /\ ~exited
    /\ i \in 1..Len(threads[MQTT])
    /\ LET t == threads[MQTT][i] IN
       /\ t.alive /\ t.pc = "subscribe"
       /\ \E connected \in BOOLEAN :
            IF connected
            THEN /\ subscribed' = [subscribed EXCEPT ![MQTT] = TRUE]
                 /\ threads' = [threads EXCEPT ![MQTT][i] = [t EXCEPT !.pc = "wait"]]
            ELSE /\ threads' = [threads EXCEPT ![MQTT][i] = loop_except(t)]
                 /\ UNCHANGED subscribed
    /\ UNCHANGED <<sensor_connections, stop_event, max_retries, payload_queue, joining,
                   exited, health_file, netmon, hist>>
    /\ UNCHANGED <<frostVars, lockVars, cfgVars, creds, raceVars, pipeVars, setup>>

\* on_message: json.loads(message.payload) is put on the queue
OnMessage ==
    /\ ~exited
    /\ subscribed[MQTT]
    /\ Len(hist.enqueued[MQTT]) < MaxMsgs
    /\ \E p \in MqttPayloads :
         /\ payload_queue' = [payload_queue EXCEPT ![MQTT] = Append(@, p)]
         /\ hist' = [hist EXCEPT !.enqueued[MQTT] = Append(@, p)]
    /\ UNCHANGED <<sensor_connections, threads, stop_event, max_retries, subscribed, joining,
                   exited, health_file, netmon>>
    /\ UNCHANGED <<frostVars, lockVars, cfgVars, creds, raceVars, pipeVars, setup>>

\* payload_queue.get(timeout): queue.Queue is first in, first out
queue_get_lifo(q) == <<q[Len(q)], SubSeq(q, 1, Len(q) - 1)>>

queue_get(q) == <<Head(q), Tail(q)>>

\* TTSConnection.retrieve: one payload_queue.get(timeout=timeout) returns
MqttWait(i) ==
    /\ ~exited
    /\ i \in 1..Len(threads[MQTT])
    /\ LET t == threads[MQTT][i] IN
       /\ t.alive /\ t.pc = "wait"
       /\ IF payload_queue[MQTT] # << >>
          THEN LET got == queue_get(payload_queue[MQTT])
                   p == got[1]
               IN
               /\ payload_queue' = [payload_queue EXCEPT ![MQTT] = got[2]]
               /\ netmon' = add_named_count(netmon, "payloads_received", MQTT, 1)
               /\ hist' = [hist EXCEPT !.dequeued[MQTT] = Append(@, p)]
               /\ threads' = [threads EXCEPT ![MQTT][i] =
                    CASE p = "no_model" -> loop_except(t)          \* ValueError
                      [] p = "am308l_bad_type" -> loop_except(t)   \* escapes _filter
                      [] p = "am308l" ->
                           [t EXCEPT !.attempts = 0, !.cur = p, !.todo = MaxObs,
                                     !.pc = "upload"]
                      [] OTHER -> loop_success(t)]
          ELSE \* queue.Empty
               /\ netmon' = add_named_count(netmon, "rejected_payloads", MQTT, 1)
               /\ threads' = [threads EXCEPT ![MQTT][i] =
                    IF t.attempts + 1 <= QueueRetries
                    THEN [t EXCEPT !.attempts = @ + 1]
                    ELSE loop_except([t EXCEPT !.attempts = @ + 1])]  \* TimeoutError
               /\ UNCHANGED <<payload_queue, hist>>
    /\ UNCHANGED <<sensor_connections, stop_event, max_retries, subscribed, joining,
                   exited, health_file>>
    /\ UNCHANGED <<frostVars, lockVars, cfgVars, creds, raceVars, pipeVars, setup>>

\* milesight_am308L.frost_upload: one observation of the payload
MqttUpload(i) ==
    /\ ~exited
    /\ i \in 1..Len(threads[MQTT])
    /\ LET t == threads[MQTT][i]
           next(u) == IF u.todo = 1 THEN loop_success(u)
                      ELSE [u EXCEPT !.todo = @ - 1]
       IN
       /\ t.alive /\ t.pc = "upload"
       /\ \E r \in {"ok", "no_link", "post_fail", "url_error"} :
            CASE r = "ok" ->
                   /\ threads' = [threads EXCEPT ![MQTT][i] =
                          next([t EXCEPT !.uploaded = @ + 1])]
                   /\ UNCHANGED netmon
              [] r \in {"no_link", "post_fail"} ->  \* make_frost_object raised
                   /\ threads' = [threads EXCEPT ![MQTT][i] =
                          next([t EXCEPT !.rejected = TRUE])]
                   /\ netmon' = add_named_count(netmon, "push_fail", MQTT, 1)
              [] OTHER ->                           \* filter_query raised URLError
                   /\ threads' = [threads EXCEPT ![MQTT][i] = loop_except(t)]
                   /\ UNCHANGED netmon
    /\ UNCHANGED <<sensor_connections, stop_event, max_retries, subscribed, payload_queue, joining,
                   exited, health_file, hist>>
    /\ UNCHANGED <<frostVars, lockVars, cfgVars, creds, raceVars, pipeVars, setup>>

\* the except branch of _loop after time.sleep(300): the budget check.
\* self.stop() sets the event and joins self._thread; joining the current
\* thread raises RuntimeError, which leaves _loop.
FailSleep(c, i) ==
    /\ ~exited
    /\ i \in 1..Len(threads[c])
    /\ LET t == threads[c][i] IN
       /\ t.alive /\ t.pc = "failsleep"
       /\ IF t.restart_attempts = max_retries[c]
          THEN /\ stop_event' = [stop_event EXCEPT ![c] = TRUE]
               /\ threads' = [threads EXCEPT ![c][i] =
                    IF i = Len(threads[c])
                    THEN [t EXCEPT !.alive = FALSE, !.pc = "done",
                                   !.exit = "RuntimeError"]
                    ELSE [t EXCEPT !.pc = "top", !.critical = TRUE]]
          ELSE /\ threads' = [threads EXCEPT ![c][i] = [t EXCEPT !.pc = "top"]]
               /\ UNCHANGED stop_event
    /\ UNCHANGED <<sensor_connections, max_retries, subscribed, payload_queue, joining,
                   exited, health_file, netmon, hist>>
    /\ UNCHANGED <<frostVars, lockVars, cfgVars, creds, raceVars, pipeVars, setup>>

\* ------------------------------------------------------- the orchestrator
\* connection.start(push=True)
Start(c) ==
    /\ ~exited
    /\ c \in sensor_connections
    /\ joining = "none"
    /\ Len(start(c, threads[c])) <= MaxThreads
    /\ threads' = [threads EXCEPT ![c] = start(c, @)]
    /\ hist' = [hist EXCEPT !.noop_start[c] = @ \/ is_alive(threads[c])]
    /\ UNCHANGED <<sensor_connections, stop_event, max_retries, subscribed, payload_queue, joining,
                   exited, health_file, netmon>>
    /\ UNCHANGED <<frostVars, lockVars, cfgVars, creds, raceVars, pipeVars, setup>>

\* connection.stop(), up to the join: the event is set
StopSet(c) ==
    /\ ~exited
    /\ c \in sensor_connections
    /\ joining = "none"
    /\ stop_event' = [stop_event EXCEPT ![c] = TRUE]
    /\ joining' = IF Len(threads[c]) > 0 THEN c ELSE "none"
    /\ UNCHANGED <<sensor_connections, threads, max_retries, subscribed, payload_queue,
                   exited, health_file, netmon, hist>>
    /\ UNCHANGED <<frostVars, lockVars, cfgVars, creds, raceVars, pipeVars, setup>>

\* connection.stop(): self._thread.join(5) returns, the worker dead or not
JoinReturn ==
    /\ ~exited
    /\ joining # "none"
    /\ joining' = "none"
    /\ hist' = [hist EXCEPT !.join_timeout = @ \/ is_alive(threads[joining])]
    /\ UNCHANGED <<sensor_connections, threads, stop_event, max_retries, subscribed, payload_queue,
                   exited, health_file, netmon>>
    /\ UNCHANGED <<frostVars, lockVars, cfgVars, creds, raceVars, pipeVars, setup>>

\* push_available: set_starting_threads, then start every connection
PushAvailable ==
    /\ ~exited
    /\ joining = "none"
    /\ netmon.starting_application_threads = {}
    /\ \A c \in sensor_connections : Len(start(c, threads[c])) <= MaxThreads
    /\ netmon' = [netmon EXCEPT !.starting_application_threads = sensor_connections]
    /\ threads' = [c \in Conns |->
                     IF c \in sensor_connections THEN start(c, threads[c])
                     ELSE threads[c]]
    /\ hist' = [hist EXCEPT !.noop_start =
                   [c \in Conns |-> @[c] \/ (c \in sensor_connections /\ is_alive(threads[c]))]]
    /\ UNCHANGED <<sensor_connections, stop_event, max_retries, subscribed, payload_queue, joining,
                   exited, health_file>>
    /\ UNCHANGED <<frostVars, lockVars, cfgVars, creds, raceVars, pipeVars, setup>>

\* report: dead_threads = starting_application_threads - live_threads
dead_threads == netmon.starting_application_threads \ live_threads

\* report: sys.exit(1) when a thread has died, else the health file is written
report_exits_never(dead) == FALSE

report_exits(dead) == dead # {}

\* the keys of the defaultdict push_success: a key exists once it was added to
push_success_keys(m) == {k \in Keys : m.push_success[k] > 0}

\* report: the time read for every key of push_success, and
\* non_responsive_applications = expected_sensors - push_success.keys()
health_report(m, stored) ==
    [ issued |-> TRUE,
      non_responsive |-> m.expected_sensors \ push_success_keys(m),
      last_push |-> [k \in push_success_keys(m) |-> m.last_push_time[k]],
      stored |-> stored ]

Report ==
    /\ ~exited
    /\ joining = "none"
    /\ netmon.starting_application_threads # {}
    /\ hist.reports < MaxReports
    /\ netmon' = [netmon EXCEPT !.first_report_issued = TRUE]
    /\ hist' = [hist EXCEPT
                   !.reports = @ + 1,
                   !.health = IF report_exits(dead_threads) THEN @
                              ELSE health_report(netmon, Len(observations))]
    /\ IF report_exits(dead_threads)
       THEN exited' = TRUE /\ UNCHANGED health_file
       ELSE health_file' = health_file + 1 /\ UNCHANGED exited
    /\ UNCHANGED <<sensor_connections, threads, stop_event, max_retries, subscribed, payload_queue,
                   joining>>
    /\ UNCHANGED <<frostVars, lockVars, cfgVars, creds, raceVars, pipeVars, setup>>

WorkerStep(c, i) ==
    \/ LoopTop(c, i)
    \/ FailSleep(c, i)
    \/ (c = HTTP /\ (HttpPull(i) \/ HttpUpload(i) \/ HttpRetrySleep(i) \/ HttpSleep(i)))
    \/ (c = MQTT /\ (Subscribe(i) \/ MqttWait(i) \/ MqttUpload(i)))

Next ==
    \/ \E c \in Conns : \E i \in 1..MaxThreads : LoopTop(c, i)
    \/ \E c \in Conns : \E i \in 1..MaxThreads : FailSleep(c, i)
    \/ \E i \in 1..MaxThreads : HttpPull(i)
    \/ \E i \in 1..MaxThreads : HttpUpload(i)
    \/ \E i \in 1..MaxThreads : HttpRetrySleep(i)
    \/ \E i \in 1..MaxThreads : HttpSleep(i)
    \/ \E i \in 1..MaxThreads : Subscribe(i)
    \/ \E i \in 1..MaxThreads : MqttWait(i)
    \/ \E i \in 1..MaxThreads : MqttUpload(i)
    \/ OnMessage
    \/ \E c \in Conns : Start(c)
    \/ \E c \in Conns : StopSet(c)
    \/ JoinReturn
    \/ PushAvailable
    \/ Report

Spec == Init /\ [][Next]_vars

\* the worker steps are scheduled by the interpreter: no runnable thread is
\* starved, every blocking call returns within its timeout, join(5) returns
FairSpec ==
    /\ Spec
    /\ \A c \in Conns : \A i \in 1..MaxThreads : WF_vars(WorkerStep(c, i))
    /\ WF_vars(JoinReturn)

\* -------------------------------------------------------- the FROST client
\* filter_query(entity, "name eq '<name>'"): the matches, as their ids
filter_query(ty, nm) == {x.id : x \in {y \in store : y.st_type = ty /\ y.name = nm}}

\* the store numbers the entities of each type on their own
ById(ty, id) == CHOOSE x \in store : x.st_type = ty /\ x.id = id

Min(S) == CHOOSE x \in S : \A y \in S : x <= y

\* check_existing_object: no case matches the st_type "Location"; a
\* Datastream exists when one of its name is linked to a Sensor of the
\* name of the entity's sensor link
check_existing_object_by_name(e) ==
    CASE e.st_type \in {"Sensor", "Thing", "ObservedProperty", "Locations",
                        "Datastream"} ->
           filter_query(e.st_type, e.name) # {}
      [] OTHER -> FALSE

check_existing_object(e) ==
    CASE e.st_type \in {"Sensor", "Thing", "ObservedProperty", "Locations"} ->
           filter_query(e.st_type, e.name) # {}
      [] e.st_type = "Datastream" ->
           \E id \in filter_query("Datastream", e.name) :
               ById("Sensor", ById("Datastream", id).sensor).name = e.sensor
      [] OTHER -> FALSE

\* whether check_existing_object sends a request for this entity
check_requests(e) ==
    e.st_type \in {"Sensor", "Thing", "ObservedProperty", "Locations", "Datastream"}

NewId(ty) == Cardinality({x \in store : x.st_type = ty}) + 1

\* the entities on the store that stand for e
Count(e) ==
    Cardinality({x \in store :
        /\ x.st_type = e.st_type /\ x.name = e.name
        /\ e.st_type = "Datastream" => ById("Sensor", x.sensor).name = e.sensor})

\* calls counts the calls that returned; a call that raised leaves it
EndCall(op, e, result) ==
    /\ last_call' = [op |-> op, key |-> e.st_type, result |-> result]
    /\ calls' = [calls EXCEPT ![e] = IF result = "raised" THEN @ ELSE @ + 1]

\* make_frost_object(entity) for a Sensor, Thing, Location or ObservedProperty
MakeFrostObject(e, fail) ==
    /\ e \in Entities /\ e.st_type # "Datastream"
    /\ calls[e] < MaxCalls /\ Count(e) <= MaxCalls
    /\ fail = "check" => check_requests(e)
    /\ IF fail = "check"
       THEN EndCall("make_frost_object", e, "raised") /\ UNCHANGED store
       ELSE IF check_existing_object(e)
       THEN EndCall("make_frost_object", e, "skipped") /\ UNCHANGED store
       ELSE IF fail = "post"
       THEN EndCall("make_frost_object", e, "raised") /\ UNCHANGED store
       ELSE /\ store' = store \cup {[st_type |-> e.st_type, name |-> e.name,
                                     id |-> NewId(e.st_type), sensor |-> 0]}
            /\ EndCall("make_frost_object", e,
                       IF fail = "readback" THEN "raised" ELSE "created")
    /\ UNCHANGED <<connVars, netmon, observations, clock, lockVars, cfgVars, creds, raceVars, pipeVars>>

\* make_frost_datastream(entity, sensor_id, thing_id, observed_property_id),
\* with the ids initial_setup looks up by name
MakeFrostDatastream(e, fail) ==
    /\ e \in Entities /\ e.st_type = "Datastream"
    /\ calls[e] < MaxCalls
    /\ filter_query("Sensor", e.sensor) # {}
    /\ filter_query("ObservedProperty", e.name) # {}
    /\ filter_query("Thing", "t1") # {}
    /\ IF fail = "check"
       THEN EndCall("make_frost_datastream", e, "raised") /\ UNCHANGED store
       ELSE IF check_existing_object(e)
       THEN EndCall("make_frost_datastream", e, "skipped") /\ UNCHANGED store
       ELSE IF fail = "post"     \* HTTPError: logged, not raised
       THEN EndCall("make_frost_datastream", e, "returned") /\ UNCHANGED store
       ELSE /\ store' = store \cup {[st_type |-> "Datastream", name |-> e.name,
                                     id |-> NewId("Datastream"),
                                     sensor |-> Min(filter_query("Sensor", e.sensor))]}
            /\ EndCall("make_frost_datastream", e, "returned")
    /\ UNCHANGED <<connVars, netmon, observations, clock, lockVars, cfgVars, creds, raceVars, pipeVars>>

\* find_datastream_url: the first Sensor of that name, then the first of its
\* Datastreams of that name; 0 stands for the empty string
find_datastream_url_any_sensor(sensor_name, datastream_name) ==
    IF filter_query("Sensor", sensor_name) = {} THEN 0
    ELSE IF filter_query("Datastream", datastream_name) = {} THEN 0
    ELSE Min(filter_query("Datastream", datastream_name))

find_datastream_url(sensor_name, datastream_name) ==
    IF filter_query("Sensor", sensor_name) = {} THEN 0
    ELSE LET sid == Min(filter_query("Sensor", sensor_name))
             ds == {id \in filter_query("Datastream", datastream_name) :
                       ById("Datastream", id).sensor = sid}
         IN IF ds = {} THEN 0 ELSE Min(ds)

\* add_named_time, as one step
add_named_time(m, attr, application, time) ==
    [m EXCEPT ![attr][application] = time]

\* the except clause of frost_observation_upload covers make_frost_object only
upload_try_covers(fail) == fail # "resolve"

\* frost_observation_upload(sensor_name, (observation, datastream_name))
FrostObservationUpload(sensor_name, datastream_name, fail) ==
    /\ clock <= MaxUploads
    /\ clock' = clock + 1
    /\ LET push_link == find_datastream_url(sensor_name, datastream_name)
           posted == fail \in {"none", "readback"} /\ push_link # 0
           ok == fail = "none" /\ push_link # 0
           result == IF ok THEN "returned"
                     ELSE IF upload_try_covers(fail) THEN "FrostUploadFailure"
                     ELSE "URLError"
       IN
       /\ observations' = IF posted THEN Append(observations, push_link)
                          ELSE observations
       /\ netmon' =
            CASE result = "returned" ->
                   add_named_time(
                       add_named_count(netmon, "push_success", sensor_name, 1),
                       "last_push_time", sensor_name, clock)
              [] result = "FrostUploadFailure" ->
                   add_named_count(netmon, "push_fail", sensor_name, 1)
              [] OTHER -> netmon
       /\ last_call' = [op |-> "frost_observation_upload",
                        key |-> sensor_name, result |-> result]
    /\ UNCHANGED <<connVars, store, calls, lockVars, cfgVars, creds, raceVars, pipeVars, setup>>

NextFrost ==
    \/ \E e \in Entities : \E fail \in {"none", "check", "post", "readback"} :
          MakeFrostObject(e, fail) /\ UNCHANGED setup
    \/ \E e \in Entities : \E fail \in {"none", "check", "post"} :
          MakeFrostDatastream(e, fail) /\ UNCHANGED setup

NextUpload ==
    \E sn \in Sensors : \E fail \in {"none", "resolve", "post", "readback"} :
        FrostObservationUpload(sn, "co2", fail)

\* one deployment, as the client does not depend on the connections
InitSingle == Init /\ sensor_connections = {HTTP} /\ max_retries[HTTP] = 1

SpecFrost == InitSingle /\ [][NextFrost]_vars

\* the store as initial_setup leaves it for the arrangement
StoreAfterSetup ==
    { [st_type |-> "Sensor", name |-> "s1", id |-> 1, sensor |-> 0],
      [st_type |-> "Sensor", name |-> "s2", id |-> 2, sensor |-> 0],
      [st_type |-> "Thing", name |-> "t1", id |-> 1, sensor |-> 0],
      [st_type |-> "Location", name |-> "l1", id |-> 1, sensor |-> 0],
      [st_type |-> "ObservedProperty", name |-> "co2", id |-> 1, sensor |-> 0],
      [st_type |-> "Datastream", name |-> "co2", id |-> 1, sensor |-> 1],
      [st_type |-> "Datastream", name |-> "co2", id |-> 2, sensor |-> 2] }

\* uploads start after initial_setup, which may have left out a datastream
\* whose POST was refused, or ran against another store
InitUpload ==
    /\ sensor_connections = {HTTP}
    /\ threads = [c \in Conns |-> << >>]
    /\ stop_event = [c \in Conns |-> FALSE]
    /\ max_retries = [c \in Conns |-> 1]
    /\ subscribed = [c \in Conns |-> FALSE]
    /\ payload_queue = [c \in Conns |-> << >>]
    /\ joining = "none"
    /\ exited = FALSE
    /\ health_file = 0
    /\ netmon = NetmonInit
    /\ hist = HistInit
    /\ store \in { StoreAfterSetup,
                    {x \in StoreAfterSetup : x.st_type # "Datastream" \/ x.id # 2},
                    {} }
    /\ InitClient

SpecUpload == InitUpload /\ [][NextUpload]_vars

\* -------------------------------------------------- the monitor's counters
\* getattr(self, attr), or getattr(self, attr)[application]
counter(m, k) ==
    IF k[1] = "sensor_config_fail" THEN m.sensor_config_fail ELSE m[k[1]][k[2]]

\* a thread enters add_count(attr, count) or
\* add_named_count(attr, application, count)
MonCall(t, k) ==
    /\ callers[t].pc = "idle" /\ callers[t].done < MaxCounts
    /\ callers' = [callers EXCEPT ![t].pc = "acquire", ![t].attr = k[1],
                                  ![t].key = k[2], ![t].count = 1]
    /\ UNCHANGED <<connVars, netmon, frostVars, lock, applied, cfgVars, creds, raceVars, pipeVars, setup>>

\* with self._lock: Lock.acquire blocks while another thread holds it
lock_acquire_unguarded(t) == TRUE

lock_acquire(t) == lock = 0

MonAcquire(t) ==
    /\ callers[t].pc = "acquire"
    /\ lock_acquire(t)
    /\ lock' = t
    /\ callers' = [callers EXCEPT ![t].pc = "read"]
    /\ UNCHANGED <<connVars, netmon, frostVars, applied, cfgVars, creds, raceVars, pipeVars, setup>>

\* v = self.__getattribute__(attr) + count
MonRead(t) ==
    /\ callers[t].pc = "read"
    /\ callers' = [callers EXCEPT
           ![t].v = counter(netmon, <<callers[t].attr, callers[t].key>>)
                       + callers[t].count,
           ![t].pc = "write"]
    /\ UNCHANGED <<connVars, netmon, frostVars, lock, applied, cfgVars, creds, raceVars, pipeVars, setup>>

\* self.__setattr__(attr, v); applied records the increment asked for
MonWrite(t) ==
    /\ callers[t].pc = "write"
    /\ netmon' = IF callers[t].attr = "sensor_config_fail"
                 THEN [netmon EXCEPT !.sensor_config_fail = callers[t].v]
                 ELSE [netmon EXCEPT ![callers[t].attr][callers[t].key] = callers[t].v]
    /\ applied' = [applied EXCEPT ![<<callers[t].attr, callers[t].key>>] =
                                      @ + callers[t].count]
    /\ callers' = [callers EXCEPT ![t].pc = "release"]
    /\ UNCHANGED <<connVars, frostVars, lock, cfgVars, creds, raceVars, pipeVars, setup>>

\* leaving the with block releases the lock
MonRelease(t) ==
    /\ callers[t].pc = "release"
    /\ lock' = IF lock = t THEN 0 ELSE lock
    /\ callers' = [callers EXCEPT ![t] = [Idle EXCEPT !.done = callers[t].done + 1]]
    /\ UNCHANGED <<connVars, netmon, frostVars, applied, cfgVars, creds, raceVars, pipeVars, setup>>

NextMon ==
    \/ \E t \in Callers : \E k \in Counters : MonCall(t, k)
    \/ \E t \in Callers : MonAcquire(t)
    \/ \E t \in Callers : MonRead(t)
    \/ \E t \in Callers : MonWrite(t)
    \/ \E t \in Callers : MonRelease(t)

SpecMon == InitSingle /\ [][NextMon]_vars

\* ------------------------------------------- the connections of the files
\* a sensor configuration file, as far as push_available reads it
ConfigFiles ==
    [ id : Sensors, application_name : Conns,
      host : {"netatmo", "eu1.cloud.thethings.network", "other"},
      valid : BOOLEAN ]

Connection(cls, application_name) ==
    [cls |-> cls, application_name |-> application_name]

\* the abstract class a connection class derives from
Base(cls) ==
    IF cls = "NetatmoConnection" THEN "CredentialedHTTPSensorConnection"
    ELSE "CredentialedMQTTSensorConnection"

\* __hash__: hash(self.application_name)
hash(a) == a.application_name

\* __eq__: False unless other is an instance of the same abstract class
eq(a, other) ==
    IF Base(other.cls) # Base(a.cls) THEN FALSE
    ELSE other.application_name = a.application_name

\* set.add: the element is left out when an equal one of its hash is held
set_add(S, x) ==
    IF \E y \in S : hash(y) = hash(x) /\ eq(y, x) THEN S ELSE S \cup {x}

\* add_count(attr, count), as one step
add_count(m, attr, count) == [m EXCEPT ![attr] = @ + count]

\* push_available: one pass of the loop over SENSOR_CONFIG_FILES; what
\* frost.initial_setup does on the store is in the Setup actions
ConfigFile(f) ==
    /\ Len(configs) < MaxConfigs
    /\ configs' = Append(configs, f)
    /\ IF ~f.valid
       THEN /\ netmon' = add_count(netmon, "sensor_config_fail", 1)
            /\ UNCHANGED conn_set
       ELSE /\ netmon' = [netmon EXCEPT !.expected_sensors = @ \cup {f.id}]
            /\ conn_set' =
                 CASE f.host = "netatmo" ->
                        set_add(conn_set,
                                Connection("NetatmoConnection", f.application_name))
                   [] f.host = "eu1.cloud.thethings.network" ->
                        set_add(conn_set,
                                Connection("TTSConnection", f.application_name))
                   [] OTHER -> conn_set
    /\ UNCHANGED <<connVars, frostVars, lockVars, setup, raceVars, pipeVars, creds>>

NextConfig == \E f \in ConfigFiles : ConfigFile(f)

SpecConfig == InitSingle /\ [][NextConfig]_vars

\* ------------------------------------------------------------ initial_setup
\* the calls initial_setup makes for the arrangement, in its order: the
\* Thing and its Location, the Sensors, the ObservedProperty, the Datastreams
SetupSteps ==
    << Entity("Thing", "t1", ""), Entity("Location", "l1", ""),
       Entity("Sensor", "s1", ""), Entity("Sensor", "s2", ""),
       Entity("ObservedProperty", "co2", ""),
       Entity("Datastream", "co2", "s1"), Entity("Datastream", "co2", "s2") >>

\* the step after a call that returned: `if not make_thing: break` leaves
\* the loop over the Things before the Locations of the Thing are made
NextStep_no_break(step, result) == step + 1

NextStep(step, result) ==
    IF SetupSteps[step].st_type = "Thing" /\ result = "skipped"
    THEN step + 2
    ELSE step + 1

\* the call has ended: the exception leaves initial_setup, or the next call
\* is made, or initial_setup returns
AfterCall(fail) ==
    LET result == last_call'.result
        step == NextStep(setup.step, result)
    IN  setup' =
          IF result = "raised"
          THEN [setup EXCEPT !.state = "raised", !.clean = FALSE]
          ELSE [setup EXCEPT !.step = step,
                             !.clean = @ /\ fail = "none",
                             !.state = IF step > Len(SetupSteps) THEN "returned"
                                       ELSE "running"]

\* initial_setup is called: _check_frost_connection
SetupBegin(up) ==
    /\ setup.state # "running"
    /\ setup.runs < MaxRuns
    /\ setup' = [ state |-> IF up THEN "running" ELSE "raised",
                  step |-> IF up THEN 1 ELSE 0,
                  runs |-> setup.runs + 1,
                  clean |-> up,
                  after_clean |-> (setup.state = "returned" /\ setup.clean) ]
    /\ UNCHANGED <<connVars, netmon, frostVars, lockVars, cfgVars, creds, raceVars, pipeVars>>

\* initial_setup: make_frost_object for a Thing, Location, Sensor or
\* ObservedProperty
SetupObject(fail) ==
    /\ setup.state = "running"
    /\ MakeFrostObject(SetupSteps[setup.step], fail)
    /\ AfterCall(fail)

\* initial_setup: the three id lookups and make_frost_datastream
SetupDatastream(fail) ==
    /\ setup.state = "running"
    /\ MakeFrostDatastream(SetupSteps[setup.step], fail)
    /\ AfterCall(fail)

NextSetup ==
    \/ \E up \in BOOLEAN : SetupBegin(up)
    \/ \E fail \in {"none", "check", "post", "readback"} : SetupObject(fail)
    \/ \E fail \in {"none", "check", "post"} : SetupDatastream(fail)

SpecSetup == InitSingle /\ [][NextSetup]_vars

\* --------------------------------------- make_frost_object, request by request
\* make_frost_object: check_existing_object has answered; another thread
\* may be between its own check and its POST
MakerCheck(t, e) ==
    /\ makers[t].pc = "idle" /\ makers[t].done < MaxCalls
    /\ e.st_type # "Datastream"
    /\ makers' = [makers EXCEPT ![t].pc = "post", ![t].entity = e,
                                ![t].exists = check_existing_object(e)]
    /\ overlap' = (overlap \/ \E u \in Callers \ {t} :
                                 makers[u].pc = "post" /\ makers[u].entity = e)
    /\ UNCHANGED <<connVars, netmon, frostVars, lockVars, cfgVars, creds, setup, pipeVars>>

\* make_frost_object: return {} when the check found the entity, else POST
\* it and read the new entity back
MakerPost(t) ==
    /\ makers[t].pc = "post"
    /\ store' = IF makers[t].exists THEN store
                ELSE store \cup {[st_type |-> makers[t].entity.st_type,
                                  name |-> makers[t].entity.name,
                                  id |-> NewId(makers[t].entity.st_type),
                                  sensor |-> 0]}
    /\ makers' = [makers EXCEPT ![t].pc = "idle", ![t].done = @ + 1]
    /\ UNCHANGED <<connVars, netmon, observations, clock, last_call, calls,
                   lockVars, cfgVars, creds, setup, overlap, pipeVars>>

NextRace ==
    \/ \E t \in Callers : \E e \in Entities : MakerCheck(t, e)
    \/ \E t \in Callers : MakerPost(t)

SpecRace == InitSingle /\ [][NextRace]_vars

\* ------------------------------------------------------------ the unpackers
\* a dict without the key k, and with the key k
Without(f, k) == [x \in DOMAIN f \ {k} |-> f[x]]

With(f, k, v) == [x \in DOMAIN f \cup {k} |-> IF x = k THEN v ELSE f[x]]

EmptyDict == [x \in {} |-> 0]

\* dashboard_data of a Netatmo NWS03, with the values that matter to the
\* transformer; the API also sends fields the model does not declare
NWS03Data ==
    [ time_utc |-> [int |-> 5], Temperature |-> 1, CO2 |-> 1, Humidity |-> 1,
      Noise |-> 1, Pressure |-> 1 ]

Dashboards ==
    { NWS03Data, [NWS03Data EXCEPT !.time_utc = [int |-> 0]],
      With(NWS03Data, "temp_trend", 1), Without(NWS03Data, "Noise") }

\* decoded_payload of a Milesight AM308L
AM308LData ==
    [ battery |-> 1, co2 |-> 1, humidity |-> 1, light_level |-> 1,
      pir |-> [str |-> "idle"], pm10 |-> 1, pm2_5 |-> 1, pressure |-> 1,
      temperature |-> 1, tvoc |-> 1 ]

DecodedPayloads ==
    { AM308LData, [AM308LData EXCEPT !.pir = [str |-> "trigger"]],
      With(AM308LData, "beep", 1), Without(AM308LData, "co2") }

\* the devices of a Netatmo payload: complete, or lacking one key
DeviceKeys == {"_id", "reachable", "dashboard_data"}

Device(id, reachable, data) ==
    [k \in DeviceKeys |-> CASE k = "_id" -> [str |-> id]
                            [] k = "reachable" -> [bool |-> reachable]
                            [] OTHER -> data]

Devices ==
    LET full == {Device(id, r, d) : id \in {"d1", "d2"}, r \in BOOLEAN,
                                    d \in Dashboards}
    IN  full \cup {Without(d, k) : d \in full, k \in DeviceKeys}

NetatmoPayloads ==
    UNION {[1..n -> Devices] : n \in 0..MaxDevices}

\* the uplinks of The Things Stack: complete, or lacking one part
RxMetadata ==
    { << >>, << [received_at |-> "t1"] >>, << EmptyDict >>,
      << [received_at |-> "t1"], [received_at |-> "t2"] >> }

Uplink(eui, decoded, rx) ==
    [ end_device_ids |-> [dev_eui |-> eui],
      uplink_message |-> [decoded_payload |-> decoded, rx_metadata |-> rx] ]

TTSPayloads ==
    LET full == {Uplink(e, d, rx) : e \in {"e1", "e2"}, d \in DecodedPayloads,
                                    rx \in RxMetadata}
    IN  full
        \cup {Without(p, k) : p \in full, k \in {"end_device_ids", "uplink_message"}}
        \cup {[p EXCEPT !.end_device_ids = EmptyDict] : p \in full}
        \cup {[p EXCEPT !.uplink_message = Without(@, k)] :
                 p \in full, k \in {"decoded_payload", "rx_metadata"}}

\* NativePayload(data, application_timestamp), or the exception that left
Native(data, ts) == [status |-> "ok", data |-> data, application_timestamp |-> ts]

Raised(exception) == [status |-> exception]

\* NetatmoUnpacker.unpack: the loop over the devices from device i on; a
\* KeyError becomes MissingPayloadKeysError
RECURSIVE NetatmoLoop(_, _, _)
NetatmoLoop(devices, i, unpacked_payload) ==
    IF i > Len(devices) THEN Native(unpacked_payload, [none |-> TRUE])
    ELSE LET device == devices[i] IN
         IF "reachable" \notin DOMAIN device THEN Raised("MissingPayloadKeysError")
         ELSE IF ~device["reachable"].bool
         THEN NetatmoLoop(devices, i + 1, unpacked_payload)
         ELSE IF {"dashboard_data", "_id"} \ DOMAIN device # {}
         THEN Raised("MissingPayloadKeysError")
         ELSE NetatmoLoop(devices, i + 1,
                          With(unpacked_payload, device["_id"].str,
                               device["dashboard_data"]))

NetatmoUnpacker_unpack_until_unreachable(payload) ==
    LET stops == {i \in 1..Len(payload) :
                     /\ "reachable" \in DOMAIN payload[i]
                     /\ ~payload[i]["reachable"].bool}
    IN  IF stops = {} THEN NetatmoLoop(payload, 1, EmptyDict)
        ELSE NetatmoLoop(SubSeq(payload, 1, Min(stops) - 1), 1, EmptyDict)

NetatmoUnpacker_unpack(payload) == NetatmoLoop(payload, 1, EmptyDict)

TTSUnpacker_unpack_last_rx(payload) ==
    LET up == payload["uplink_message"] IN
    IF {"end_device_ids", "uplink_message"} \ DOMAIN payload # {}
       \/ "dev_eui" \notin DOMAIN payload["end_device_ids"]
       \/ {"decoded_payload", "rx_metadata"} \ DOMAIN up # {}
    THEN Raised("MissingPayloadKeysError")
    ELSE IF Len(up["rx_metadata"]) = 0 THEN Raised("IndexError")
    ELSE IF "received_at" \notin DOMAIN up["rx_metadata"][Len(up["rx_metadata"])]
    THEN Raised("MissingPayloadKeysError")
    ELSE Native(With(EmptyDict, payload["end_device_ids"]["dev_eui"],
                     up["decoded_payload"]),
                [str |-> up["rx_metadata"][Len(up["rx_metadata"])]["received_at"]])

\* TTSUnpacker.unpack: only KeyError is caught
TTSUnpacker_unpack(payload) ==
    IF "end_device_ids" \notin DOMAIN payload
       \/ "dev_eui" \notin DOMAIN payload["end_device_ids"]
       \/ "uplink_message" \notin DOMAIN payload
       \/ "decoded_payload" \notin DOMAIN payload["uplink_message"]
       \/ "rx_metadata" \notin DOMAIN payload["uplink_message"]
    THEN Raised("MissingPayloadKeysError")
    ELSE LET rx_metadata == payload["uplink_message"]["rx_metadata"] IN
         IF Len(rx_metadata) = 0 THEN Raised("IndexError")
         ELSE IF "received_at" \notin DOMAIN rx_metadata[1]
         THEN Raised("MissingPayloadKeysError")
         ELSE Native(With(EmptyDict, payload["end_device_ids"]["dev_eui"],
                          payload["uplink_message"]["decoded_payload"]),
                     [str |-> rx_metadata[1]["received_at"]])

\* an application delivers a payload
Deliver(app, body) ==
    /\ app_payload = NoPayload
    /\ app_payload' = [app |-> app, body |-> body]
    /\ UNCHANGED <<connVars, netmon, frostVars, lockVars, cfgVars, creds, setup, raceVars,
                   native, transformer, st_observations>>

\* APP_UNPACKERS[app].unpack(app_payload)
Unpack ==
    /\ app_payload # NoPayload /\ native = NoNative
    /\ native' = IF app_payload.app = "netatmo"
                 THEN NetatmoUnpacker_unpack(app_payload.body)
                 ELSE TTSUnpacker_unpack(app_payload.body)
    /\ UNCHANGED <<connVars, netmon, frostVars, lockVars, cfgVars, creds, setup, raceVars,
                   app_payload, transformer, st_observations>>

\* -------------------------------------------------------- the transformers
SupportedSensors == {"milesight.am103l", "milesight.am308l", "netatmo.nws03"}

PHENOMENON_TIME == "phenomenon_time"

\* the fields a model declares without a default
Fields(model) ==
    CASE model = "milesight.am103l" ->
             {"battery", "co2", "humidity", "temperature"}
      [] model = "milesight.am308l" ->
             {"battery", "co2", "humidity", "light_level", "pir", "pm10",
              "pm2_5", "pressure", "temperature", "tvoc"}
      [] OTHER ->
             {"time_utc", "temperature", "co2", "humidity", "noise", "pressure"}

\* NAME_TRANSFORM of a model, in the order of the dict: field, datastream
NAME_TRANSFORM(model) ==
    CASE model = "milesight.am103l" ->
             << <<"battery", "battery_level">>, <<"co2", "co2">>,
                <<"humidity", "humidity">>,
                <<"temperature", "temperature_indoor">> >>
      [] model = "milesight.am308l" ->
             << <<"battery", "battery_level">>, <<"co2", "co2">>,
                <<"humidity", "humidity">>, <<"light_level", "light_level">>,
                <<"pir", "passive_infrared">>,
                <<"pm10", "particulate_matter_10">>,
                <<"pm2_5", "particulate_matter_2_5">>,
                <<"pressure", "gauge_pressure">>,
                <<"temperature", "temperature_indoor">>,
                <<"tvoc", "total_volatile_organic_compounds">> >>
      [] OTHER ->
             << <<"time_utc", PHENOMENON_TIME>>,
                <<"temperature", "temperature_indoor">>, <<"co2", "co2">>,
                <<"humidity", "humidity">>, <<"noise", "noise">>,
                <<"pressure", "gauge_pressure">> >>

\* TRANSFORM of a model applied to the value of a field: the pir lambda
\* compares with "trigger" whatever the value is; datetime.fromtimestamp
\* raises TypeError for a value that is not a number
TRANSFORM(model, field, value) ==
    IF model = "milesight.am308l" /\ field = "pir"
    THEN [bool |-> value = [str |-> "trigger"]]
    ELSE IF model = "netatmo.nws03" /\ field = "time_utc"
    THEN IF "int" \in DOMAIN value THEN [epoch |-> value.int]
         ELSE [raised |-> "TypeError"]
    ELSE value

\* str.lower on the keys the vendors send
Lower(k) ==
    CASE k = "Temperature" -> "temperature"
      [] k = "CO2" -> "co2"
      [] k = "Humidity" -> "humidity"
      [] k = "Noise" -> "noise"
      [] k = "Pressure" -> "pressure"
      [] OTHER -> k

LowerKeys(native_fields) ==
    [k \in {Lower(x) : x \in DOMAIN native_fields} |->
        native_fields[CHOOSE x \in DOMAIN native_fields : Lower(x) = k]]

from_unpack_defaults(model, native_fields, app_phenomenon_time) ==
    LET payload == LowerKeys(native_fields) IN
    [ status |-> "ok", model |-> model,
      fields |-> [f \in Fields(model) |->
                     IF f \in DOMAIN payload THEN payload[f] ELSE 0],
      app_phenomenon_time |-> app_phenomenon_time ]

\* NativePayloadTransformer.from_unpack: the model is built from the
\* lower-cased map; a missing field fails validation, an undeclared one is
\* dropped
from_unpack(model, native_fields, app_phenomenon_time) ==
    LET payload == LowerKeys(native_fields) IN
    IF Fields(model) \ DOMAIN payload # {}
    THEN [status |-> "ValidationError", model |-> model]
    ELSE [ status |-> "ok", model |-> model,
           fields |-> [f \in Fields(model) |-> payload[f]],
           app_phenomenon_time |-> app_phenomenon_time ]

\* NativePayloadTransformer._transform: the fields after TRANSFORM
transform_fields(self) ==
    [f \in DOMAIN self.fields |-> TRANSFORM(self.model, f, self.fields[f])]

\* transformed_results.get(PHENOMENON_TIME): the value or None
get_phenomenon_time(self) ==
    LET entries == {i \in 1..Len(NAME_TRANSFORM(self.model)) :
                       NAME_TRANSFORM(self.model)[i][2] = PHENOMENON_TIME}
    IN  IF entries = {} THEN [none |-> TRUE]
        ELSE transform_fields(self)[NAME_TRANSFORM(self.model)[Min(entries)][1]]

\* a or b
Or(a, b) == IF a = [none |-> TRUE] THEN b ELSE a

\* the datetime field of an Observation: a datetime is kept, a string is parsed
datetime(value) ==
    IF "str" \in DOMAIN value THEN [iso |-> value.str] ELSE value

\* the loop of to_stObservations from entry i of the transformed results on
RECURSIVE observations_from(_, _, _)
observations_from(self, i, skip) ==
    IF i > Len(NAME_TRANSFORM(self.model)) THEN << >>
    ELSE LET observed_property == NAME_TRANSFORM(self.model)[i][1]
             datastream == NAME_TRANSFORM(self.model)[i][2]
             observation ==
                 [ result |-> transform_fields(self)[observed_property],
                   phenomenonTime |->
                       datetime(Or(get_phenomenon_time(self),
                                   self.app_phenomenon_time)),
                   datastream |-> datastream ]
         IN  IF skip /\ datastream = PHENOMENON_TIME
             THEN observations_from(self, i + 1, skip)
             ELSE <<observation>> \o observations_from(self, i + 1, skip)

to_stObservations_no_skip(self) == observations_from(self, 1, FALSE)

\* NativePayloadTransformer.to_stObservations
to_stObservations(self) == observations_from(self, 1, TRUE)

\* TRANSFORMER_MAP[model].from_unpack(data[sensor_id], application_timestamp)
FromUnpack(model, sensor_id) ==
    /\ native.status = "ok" /\ transformer = NoTransformer
    /\ sensor_id \in DOMAIN native.data
    /\ transformer' = [k \in {"sensor_id", "calls", "returned"} |->
                            CASE k = "sensor_id" -> sensor_id
                              [] k = "calls" -> 0
                              [] OTHER -> << >>]
                       @@ from_unpack(model, native.data[sensor_id],
                                      native.application_timestamp)
    /\ UNCHANGED <<connVars, netmon, frostVars, lockVars, cfgVars, creds, setup, raceVars,
                   app_payload, native, st_observations>>

\* a TRANSFORM entry raises for the fields as they are now
transform_raises(self) ==
    /\ self.model = "netatmo.nws03"
    /\ "raised" \in DOMAIN TRANSFORM(self.model, "time_utc", self.fields["time_utc"])

\* transformer.to_stObservations(): the fields are transformed in place, so a
\* later call transforms the transformed values; an exception of a TRANSFORM
\* entry leaves the call with nothing returned
ToStObservations ==
    /\ transformer.status = "ok" /\ transformer.calls < MaxTransforms
    /\ IF transform_raises(transformer)
       THEN /\ transformer' = [transformer EXCEPT !.calls = @ + 1]
            /\ UNCHANGED st_observations
       ELSE /\ st_observations' = to_stObservations(transformer)
            /\ transformer' =
                   [transformer EXCEPT !.fields = transform_fields(transformer),
                                       !.calls = @ + 1,
                                       !.returned = Append(@, st_observations')]
    /\ UNCHANGED <<connVars, netmon, frostVars, lockVars, cfgVars, creds, setup, raceVars,
                   app_payload, native>>

NextPipeline ==
    \/ \E body \in NetatmoPayloads : Deliver("netatmo", body)
    \/ \E body \in TTSPayloads : Deliver("tts", body)
    \/ Unpack
    \/ \E model \in SupportedSensors, sensor_id \in {"d1", "d2", "e1", "e2"} :
           FromUnpack(model, sensor_id)
    \/ ToStObservations

SpecPipeline == InitSingle /\ [][NextPipeline]_vars

\* ------------------------------------------------------- uploads and reports
\* the stations of a Netatmo payload, named as the sensors of the arrangement
Stations == {Device(id, r, NWS03Data) : id \in Sensors, r \in BOOLEAN}

StationPayloads == UNION {[1..n -> Stations] : n \in 1..MaxDevices}

\* netatmo_nws03._filter: the station ids kept, in the order of the payload;
\* the loop returns at the first unreachable station
RECURSIVE nws03_filter(_, _)
nws03_filter(payload, i) ==
    IF i > Len(payload) THEN << >>
    ELSE IF ~payload[i]["reachable"].bool THEN << >>
    ELSE LET rest == nws03_filter(payload, i + 1)
             station_id == payload[i]["_id"].str
         IN  <<station_id>>
             \o SelectSeq(rest, LAMBDA x : x # station_id)

\* netatmo_nws03.frost_upload(payload): for every station kept, the
\* observation whose datastream has a link is POSTed; a refused POST is
\* counted under the application, and no success is counted
NwsFrostUpload(payload, refused) ==
    /\ clock <= MaxUploads
    /\ clock' = clock + 1
    /\ LET stations == nws03_filter(payload, 1)
           linked == SelectSeq(stations,
                         LAMBDA x : find_datastream_url(x, "co2") # 0)
           posted == SelectSeq(linked, LAMBDA x : x \notin refused)
           failures == Len(linked) - Len(posted)
       IN
       /\ observations' = observations \o
              [i \in 1..Len(posted) |-> find_datastream_url(posted[i], "co2")]
       /\ netmon' = add_named_count(netmon, "push_fail", HTTP, failures)
       /\ hist' = [hist EXCEPT !.nws = [calls |-> @.calls + 1, payload |-> payload,
                                        refused |-> refused, uploaded |-> posted]]
    /\ UNCHANGED <<sensor_connections, threads, stop_event, max_retries, subscribed,
                   payload_queue, joining, exited, health_file>>
    /\ UNCHANGED <<store, last_call, calls, lockVars, cfgVars, creds, raceVars, pipeVars, setup>>

\* frost_observation_upload up to add_named_count: the POST, then the count
\* of the success or of the failure, each under the monitor's lock
UploadCount(t, sensor_name, fail) ==
    /\ callers[t].pc = "idle"
    /\ clock <= MaxUploads
    /\ clock' = clock + 1
    /\ LET push_link == find_datastream_url(sensor_name, "co2")
           ok == fail = "none" /\ push_link # 0
       IN
       /\ observations' = IF ok THEN Append(observations, push_link)
                          ELSE observations
       /\ netmon' = add_named_count(netmon,
                                    IF ok THEN "push_success" ELSE "push_fail",
                                    sensor_name, 1)
       /\ callers' = [callers EXCEPT ![t].pc = IF ok THEN "counted" ELSE "idle",
                                     ![t].key = IF ok THEN sensor_name ELSE "none"]
    /\ UNCHANGED <<connVars, store, last_call, calls, lock, applied, cfgVars, creds,
                   raceVars, pipeVars, setup>>

\* frost_observation_upload: add_named_time("last_push_time", ...), a second
\* entry into the monitor's lock
UploadTime(t) ==
    /\ callers[t].pc = "counted"
    /\ netmon' = add_named_time(netmon, "last_push_time", callers[t].key, clock)
    /\ callers' = [callers EXCEPT ![t].pc = "idle", ![t].key = "none"]
    /\ UNCHANGED <<sensor_connections, threads, stop_event, max_retries, subscribed,
                   payload_queue, joining, exited, health_file, hist>>
    /\ UNCHANGED <<frostVars, lock, applied, cfgVars, creds, raceVars, pipeVars, setup>>

\* after push_available: the sensors of the configuration files are
\* expected, the store is set up, the worker of the application runs
InitHealth ==
    /\ sensor_connections = {HTTP}
    /\ threads = [c \in Conns |-> IF c = HTTP THEN <<NewThread(c)>> ELSE << >>]
    /\ stop_event = [c \in Conns |-> FALSE]
    /\ max_retries = [c \in Conns |-> 1]
    /\ subscribed = [c \in Conns |-> FALSE]
    /\ payload_queue = [c \in Conns |-> << >>]
    /\ joining = "none"
    /\ exited = FALSE
    /\ health_file = 0
    /\ netmon = [NetmonInit EXCEPT !.expected_sensors = Sensors,
                                   !.starting_application_threads = {HTTP}]
    /\ hist = HistInit
    /\ store = StoreAfterSetup
    /\ InitClient

NextHealth ==
    \/ \E payload \in StationPayloads : \E refused \in SUBSET Sensors :
           NwsFrostUpload(payload, refused)
    \/ \E t \in Callers : \E sn \in Sensors : \E fail \in {"none", "post"} :
           UploadCount(t, sn, fail)
    \/ \E t \in Callers : UploadTime(t)
    \/ Report

SpecHealth == InitHealth /\ [][NextHealth]_vars

\* ----------------------------------------------------------- the credentials
\* json.dumps(all_credentials_json.get(application_name)), written to the file
written(variable, application_name) ==
    IF application_name \in variable.apps THEN "entry" ELSE "null"

\* dotenv.load_dotenv(file): a variable of the file is set in os.environ
\* unless os.environ has it already
load_dotenv(environ, file) == IF environ.var THEN environ ELSE file

\* _init_credentials(application_name, sensor_type): the path taken, what is
\* raised or returned, and the files and os.environ left behind
init_credentials_always_copy(c, application_name) ==
    LET new_credential_file == c.file = "absent"
        touched == IF new_credential_file THEN "empty" ELSE c.file
        environ == IF c.env_exists
                   THEN load_dotenv(IF new_credential_file
                                    THEN [var |-> FALSE, apps |-> {}]
                                    ELSE c.environ, c.env)
                   ELSE c.environ
        path == CASE new_credential_file /\ c.env_exists -> "new_env"
                  [] new_credential_file -> "new_no_env"
                  [] ~c.env_exists -> "old_no_env"
                  [] OTHER -> "old_newer_env"
    IN  IF ~environ.var
        THEN [c EXCEPT !.file = touched, !.environ = environ, !.path = path,
                       !.newer = IF new_credential_file THEN FALSE ELSE @,
                       !.result = IF path = "new_no_env" THEN "FileNotFoundError"
                                  ELSE "ValueError"]
        ELSE IF path = "old_no_env"
        THEN [c EXCEPT !.path = path, !.result = "path"]
        ELSE [c EXCEPT !.file = written(environ, application_name),
                       !.environ = environ, !.newer = FALSE, !.path = path,
                       !.result = "path"]

init_credentials(c, application_name) ==
    LET new_credential_file == c.file = "absent"
        touched == IF new_credential_file THEN "empty" ELSE c.file
    IN
    IF new_credential_file /\ c.env_exists
    THEN \* os.environ.pop, load_dotenv(env)
         LET environ == load_dotenv([var |-> FALSE, apps |-> {}], c.env) IN
         IF ~environ.var
         THEN [c EXCEPT !.file = touched, !.environ = environ, !.newer = FALSE,
                        !.path = "new_env", !.result = "ValueError"]
         ELSE [c EXCEPT !.file = written(environ, application_name),
                        !.environ = environ, !.newer = FALSE,
                        !.path = "new_env", !.result = "path"]
    ELSE IF new_credential_file
    THEN IF ~c.environ.var
         THEN [c EXCEPT !.file = touched, !.path = "new_no_env",
                        !.result = "FileNotFoundError"]
         ELSE [c EXCEPT !.file = written(c.environ, application_name),
                        !.path = "new_no_env", !.result = "path"]
    ELSE IF ~c.env_exists
    THEN \* load_dotenv(credentials_file): the JSON of the file sets nothing
         IF ~c.environ.var
         THEN [c EXCEPT !.path = "old_no_env", !.result = "ValueError"]
         ELSE [c EXCEPT !.path = "old_no_env", !.result = "path"]
    ELSE IF c.newer
    THEN LET environ == load_dotenv(c.environ, c.env) IN
         IF ~environ.var
         THEN [c EXCEPT !.environ = environ, !.path = "old_newer_env",
                        !.result = "ValueError"]
         ELSE [c EXCEPT !.file = written(environ, application_name),
                        !.environ = environ, !.newer = FALSE,
                        !.path = "old_newer_env", !.result = "path"]
    ELSE [c EXCEPT !.path = "old_else", !.result = "path"]

\* connection._credentials: _init_credentials(application_name, ...)
InitCredentials ==
    /\ creds.path # "unset"
    /\ creds.calls < MaxInits
    /\ creds' = [init_credentials(creds, HTTP) EXCEPT !.calls = @ + 1]
    /\ UNCHANGED <<connVars, netmon, frostVars, lockVars, cfgVars, setup, raceVars,
                   pipeVars>>

\* the operator writes the env file: it is now the newer file
EnvFileWritten(variable) ==
    /\ creds.path # "unset"
    /\ creds.writes < MaxEnvWrites
    /\ creds' = [creds EXCEPT !.env_exists = TRUE, !.env = variable,
                              !.newer = creds.file # "absent",
                              !.writes = @ + 1]
    /\ UNCHANGED <<connVars, netmon, frostVars, lockVars, cfgVars, setup, raceVars,
                   pipeVars>>

\* the files and the environment the application is deployed with
Deploy(c) ==
    /\ creds.path = "unset"
    /\ creds' = c
    /\ UNCHANGED <<connVars, netmon, frostVars, lockVars, cfgVars, setup, raceVars,
                   pipeVars>>

NextCreds ==
    \/ \E c \in CredsStates : Deploy(c)
    \/ InitCredentials
    \/ \E variable \in Variables : EnvFileWritten(variable)

SpecCreds == InitSingle /\ [][NextCreds]_vars

\* ------------------------------------------------------------- the claims
Live(c) == {i \in 1..Len(threads[c]) : threads[c][i].alive}

\* C1: a worker stops itself exactly when max_retries consecutive iterations
\* have failed: the failure counter equals the number of consecutive failed
\* iterations (a success resets it), a worker whose counter reached
\* max_retries is on its way out, and a worker that has ended ended either
\* on the stop flag or on the exhausted budget.
C1_BudgetExhaustion ==
    \A c \in Conns : \A i \in 1..Len(threads[c]) :
        LET t == threads[c][i] IN
        /\ t.restart_attempts = t.consec
        /\ t.consec <= max_retries[c]
        /\ (t.alive /\ t.consec = max_retries[c]) => t.pc = "failsleep"
        /\ t.exit = "RuntimeError" => (t.consec = max_retries[c] /\ stop_event[c])
        /\ ~t.alive => (t.exit = "RuntimeError" \/ (t.exit = "stopflag" /\ stop_event[c]))

\* a worker stopped itself although one of its earlier iterations had failed
\* or succeeded without exhausting the budget
C1_Witness ==
    \E c \in Conns : \E i \in 1..Len(threads[c]) :
        /\ threads[c][i].exit = "RuntimeError"
        /\ hist.iters[c] > max_retries[c]

\* C2: start() is idempotent: a connection never has two live workers, a
\* start() while a worker is alive creates no thread, and every worker is
\* named after its connection.
C2_StartIdempotent ==
    /\ [](\A c \in Conns :
            /\ Cardinality(Live(c)) <= 1
            /\ \A i \in 1..Len(threads[c]) : threads[c][i].name = c)
    /\ [][\A c \in Conns : Live(c) # {} => Len(threads'[c]) = Len(threads[c])]_vars

\* a start() met a live worker, and a later start() replaced a dead one
C2_Witness ==
    \E c \in Conns :
        hist.noop_start[c] /\ Len(threads[c]) = 2 /\ Cardinality(Live(c)) = 1

\* C6: a report cycle that finds a starting thread dead ends the process and
\* writes no health snapshot; any other report cycle writes one and the
\* process keeps running.
C6_ReportCycle ==
    [][hist'.reports = hist.reports + 1 =>
         IF netmon.starting_application_threads \ live_threads # {}
         THEN exited' /\ health_file' = health_file
         ELSE ~exited' /\ health_file' = health_file + 1]_vars

\* one report wrote the snapshot, a later one found a dead thread
C6_Witness == exited /\ health_file = 1 /\ hist.reports = 2

\* C7: the MQTT payloads are processed one at a time and in the order in
\* which on_message enqueued them.
C7_FifoOneAtATime ==
    /\ hist.dequeued[MQTT] \o payload_queue[MQTT] = hist.enqueued[MQTT]
    /\ Cardinality({i \in Live(MQTT) : threads[MQTT][i].pc = "upload"}) <= 1
    /\ \A i \in Live(MQTT) :
          threads[MQTT][i].pc = "upload" =>
             threads[MQTT][i].cur = hist.dequeued[MQTT][Len(hist.dequeued[MQTT])]

\* the second of two different payloads is being processed
C7_Witness ==
    /\ Len(hist.dequeued[MQTT]) = 2
    /\ hist.dequeued[MQTT][1] # hist.dequeued[MQTT][2]
    /\ \E i \in Live(MQTT) : threads[MQTT][i].pc = "upload"

\* C8: once the stop flag is set, the step that completes the blocking call
\* in flight takes the worker to the head of its loop or out of it: no
\* further pull, queue wait, upload or sleep is started.
C8_PromptCancellation ==
    [][\A c \in Conns : \A i \in 1..Len(threads[c]) :
          (stop_event[c] /\ threads[c][i].alive /\ threads'[c][i] # threads[c][i])
             => threads'[c][i].pc \in {"top", "done"}]_vars

\* C9: after stop() the worker eventually terminates, and stop() returns
\* from its join whether or not the worker has exited.
C9_StopTerminates ==
    \A c \in Conns :
        /\ stop_event[c] ~> (exited \/ Live(c) = {})
        /\ (joining = c) ~> (joining = "none")

\* stop() has returned on the join timeout and the worker is still alive
C9_Witness ==
    \E c \in Conns :
        stop_event[c] /\ joining = "none" /\ hist.join_timeout /\ Live(c) # {}

\* C10: a pulled payload equal to the previously pulled one is not
\* processed and its cycle sleeps interval/4.
C10_DuplicateSuppressed ==
    \A i \in Live(HTTP) :
        LET t == threads[HTTP][i] IN
        (t.cur # "none" /\ t.cur = hist.prev_pulled[HTTP]) =>
            /\ t.pc # "upload"
            /\ t.uploaded = 0
            /\ t.pc = "sleep" => SleepOf(t.pc) = "interval/4"

\* C3: two calls of make_frost_object (make_frost_datastream) in sequence
\* with the same entity leave one entity of that name on the store; the
\* second call issues no POST and returns the empty link map.
C3_IdempotentCreate ==
    /\ [](\A e \in Entities : calls[e] >= 1 => Count(e) = 1)
    /\ [][\A e \in Entities :
            (calls[e] >= 1 /\ calls'[e] = calls[e] + 1)
               => (store' = store /\ last_call'.result = "skipped")]_vars

\* C4: a call of frost_observation_upload either returns after adding one
\* to push_success and setting last_push_time, or raises FrostUploadFailure
\* after adding one to push_fail.
C4_UploadOutcome ==
    [][clock' = clock + 1 =>
         LET k == last_call'.key IN
         \/ /\ last_call'.result = "returned"
            /\ netmon'.push_success[k] = netmon.push_success[k] + 1
            /\ netmon'.push_fail = netmon.push_fail
            /\ netmon'.last_push_time[k] = clock
         \/ /\ last_call'.result = "FrostUploadFailure"
            /\ netmon'.push_fail[k] = netmon.push_fail[k] + 1
            /\ netmon'.push_success = netmon.push_success]_vars
\* C5: no update of a monitor counter is lost: under any interleaving of
\* add_named_count and add_count calls of several threads, each counter is
\* its initial value (zero) plus the sum of the increments applied to it.
C5_NoLostUpdate ==
    \A k \in Counters : counter(netmon, k) = applied[k]

C5_Witness ==
    \E t1, t2 \in Callers :
        /\ callers[t1].pc = "release" /\ callers[t2].pc = "acquire"
        /\ callers[t1].attr = callers[t2].attr /\ callers[t1].key = callers[t2].key
        /\ applied[<<callers[t1].attr, callers[t1].key>>] >= 2

\* the threads of connection c that take a step
Stepping(c) ==
    {i \in 1..Len(threads[c]) : threads'[c][i] # threads[c][i]}

\* C11: a queue wait of the MQTT worker that times out never adds to the
\* consecutive-failure counter, so a connection that receives no message
\* never stops itself.
C11_TimeoutsNotFailures ==
    [][\A i \in 1..Len(threads[MQTT]) :
          (threads[MQTT][i].pc = "wait" /\ payload_queue[MQTT] = << >>
             /\ i \in Stepping(MQTT))
          => threads'[MQTT][i].restart_attempts = threads[MQTT][i].restart_attempts]_vars

\* the payloads with a missing or wrongly typed required field
Malformed == {"am308l_missing_key", "am308l_bad_type", "no_model"}

\* C12: a malformed payload is skipped: the step that takes it off the
\* queue adds nothing to the consecutive-failure counter and the worker
\* goes on with the next iteration.
C12_MalformedSkipped ==
    [][\A i \in Stepping(MQTT) :
          (Len(hist'.dequeued[MQTT]) = Len(hist.dequeued[MQTT]) + 1
             /\ hist'.dequeued[MQTT][Len(hist'.dequeued[MQTT])] \in Malformed)
          => /\ threads'[MQTT][i].restart_attempts <= threads[MQTT][i].restart_attempts
             /\ threads'[MQTT][i].pc = "top"]_vars

\* C13: an iteration in which an observation upload was refused has added
\* one to the consecutive-failure counter when it ends.
C13_UploadFailureCounts ==
    \A c \in Conns : \A i \in 1..Len(threads[c]) :
        (threads[c][i].pc = "top" /\ threads[c][i].rejected)
            => threads[c][i].restart_attempts >= 1

\* C14: an iteration of the Netatmo worker whose pull met a transport error
\* has added one to the consecutive-failure counter when it ends.
C14_TransportErrorCounts ==
    \A i \in 1..Len(threads[HTTP]) :
        (threads[HTTP][i].pc = "top" /\ threads[HTTP][i].attempts >= 1)
            => threads[HTTP][i].restart_attempts >= 1

\* C15: a worker that has ended after its failure count reached the budget
\* has emitted the critical log record before.
C15_CriticalLogged ==
    \A c \in Conns : \A i \in 1..Len(threads[c]) :
        (~threads[c][i].alive /\ threads[c][i].restart_attempts = max_retries[c])
            => threads[c][i].critical

\* C16: a worker ends only by leaving the loop on the stop flag; no
\* exception leaves _loop.
C16_NoEscape ==
    \A c \in Conns : \A i \in 1..Len(threads[c]) :
        ~threads[c][i].alive => threads[c][i].exit = "stopflag"

\* C17: once the worker of a stopped MQTT connection has ended, no message
\* is put on the connection's payload queue.
C17_NoEnqueueAfterStop ==
    [][(stop_event[MQTT] /\ Len(threads[MQTT]) > 0 /\ Live(MQTT) = {}
          /\ threads[MQTT][Len(threads[MQTT])].exit = "stopflag")
       => Len(payload_queue'[MQTT]) <= Len(payload_queue[MQTT])]_vars

\* C19: check_existing_object reports a Datastream as existing exactly when
\* the store holds a Datastream of its name whose Sensor has the name of the
\* entity's sensor link; one of that name under another Sensor does not count.
C19_DatastreamExists ==
    \A e \in Entities :
        e.st_type = "Datastream" =>
            (check_existing_object(e) <=>
                \E x \in store : \E sn \in store :
                    /\ x.st_type = "Datastream" /\ x.name = e.name
                    /\ sn.st_type = "Sensor" /\ sn.id = x.sensor
                    /\ sn.name = e.sensor)

C19_Witness ==
    /\ last_call.op = "make_frost_datastream" /\ last_call.result = "returned"
    /\ Cardinality(filter_query("Datastream", "co2")) = 1
    /\ filter_query("Sensor", "s1") # {} /\ filter_query("Sensor", "s2") # {}
    /\ \E e1, e2 \in Entities :
         /\ e1.st_type = "Datastream" /\ e2.st_type = "Datastream"
         /\ check_existing_object(e1) /\ ~check_existing_object(e2)

\* C18: two connections are equal exactly when their application names are
\* equal, whatever their classes, and equal ones have equal hashes; the set
\* built from the configuration holds one connection per application name.
C18_EqualByName ==
    /\ \A a, b \in conn_set :
          /\ eq(a, b) <=> (a.application_name = b.application_name)
          /\ eq(a, b) => hash(a) = hash(b)
    /\ \A a, b \in conn_set : a.application_name = b.application_name => a = b

\* C20: a call of initial_setup that met no error has returned, and then
\* every Thing, Location, Sensor, ObservedProperty and Datastream of the
\* arrangement is on the store, each Datastream under its Sensor, whatever
\* part of the arrangement the store held before.
C20_SetupComplete ==
    (setup.state = "returned" /\ setup.clean)
        => \A e \in Entities : Count(e) >= 1

\* C21: a call of initial_setup on the store left by a call that returned
\* without an error creates no entity: the entities on the store stay as
\* they are.
C21_RerunSafe ==
    [][(setup.state = "running" /\ setup.after_clean)
          => (store' = store /\ last_call'.result # "created")]_vars

C21_Witness ==
    /\ setup.state = "returned" /\ setup.after_clean /\ setup.clean
    /\ \A e \in Entities : Count(e) = 1

\* C22: find_datastream_url gives an observations link exactly for the
\* pairs of a sensor name and a datastream name for which the store holds a
\* Datastream of that name under the Sensor of that name, and the empty
\* string for every other pair.
C22_UrlIffLinked ==
    \A sn \in Sensors \cup {"s3"} : \A dn \in {"co2", "noise"} :
        LET linked == {x \in store :
                         /\ x.st_type = "Datastream" /\ x.name = dn
                         /\ \E s \in store : /\ s.st_type = "Sensor"
                                             /\ s.id = x.sensor /\ s.name = sn}
        IN  /\ find_datastream_url(sn, dn) # 0 <=> linked # {}
            /\ find_datastream_url(sn, dn) # 0 =>
                  find_datastream_url(sn, dn) \in {x.id : x \in linked}

C22_Witness ==
    /\ last_call.op = "frost_observation_upload" /\ last_call.key = "s2"
    /\ last_call.result = "FrostUploadFailure"
    /\ find_datastream_url("s1", "co2") # 0
    /\ filter_query("Sensor", "s2") # {}
    /\ find_datastream_url("s2", "co2") = 0

\* C23: the calls of make_frost_object for one named entity leave one
\* entity of that name on the store whenever no call made its check while
\* another was between its check and its POST; only such an overlap can
\* leave two.
C23_SequentialOne ==
    ~overlap => \A e \in Entities : Count(e) <= 1

\* a payload in which a part the unpacker needs is structurally absent
StructurallyAbsent ==
    LET body == app_payload.body IN
    IF app_payload.app = "netatmo"
    THEN \E i \in 1..Len(body) : DeviceKeys \ DOMAIN body[i] # {}
    ELSE IF app_payload.app = "tts"
    THEN \/ {"end_device_ids", "uplink_message"} \ DOMAIN body # {}
         \/ "dev_eui" \notin DOMAIN body["end_device_ids"]
         \/ {"decoded_payload", "rx_metadata"} \ DOMAIN body["uplink_message"] # {}
         \/ Len(body["uplink_message"]["rx_metadata"]) = 0
         \/ "received_at" \notin DOMAIN body["uplink_message"]["rx_metadata"][1]
    ELSE FALSE

\* C24: a successful unpack never yields an empty result: the data map of the
\* NativePayload an unpacker returns holds at least one sensor id.
C24_NonEmptyOnSuccess ==
    native.status = "ok" => DOMAIN native.data # {}

\* C25: the keys of NetatmoUnpacker.unpack(p).data are exactly the ids of the
\* devices reported reachable, each with the dashboard data of the (last)
\* reachable device of that id, wherever it stands among unreachable ones.
C25_ReachableKeys ==
    (app_payload.app = "netatmo" /\ native.status = "ok") =>
        LET devices == app_payload.body
            reachable == {i \in 1..Len(devices) : devices[i]["reachable"].bool}
            last(id) == CHOOSE i \in reachable :
                            /\ devices[i]["_id"].str = id
                            /\ \A j \in reachable :
                                   devices[j]["_id"].str = id => j <= i
        IN  /\ DOMAIN native.data = {devices[i]["_id"].str : i \in reachable}
            /\ \A id \in DOMAIN native.data :
                   native.data[id] = devices[last(id)]["dashboard_data"]

C25_Witness ==
    /\ app_payload.app = "netatmo" /\ native.status = "ok"
    /\ Len(app_payload.body) = 2
    /\ ~app_payload.body[1]["reachable"].bool
    /\ app_payload.body[2]["reachable"].bool
    /\ DOMAIN native.data = {"d2"}

\* C26: a payload with a required part structurally absent makes unpack raise
\* MissingPayloadKeysError: it returns no value and lets no other exception out.
C26_AbsentRaisesUnpackError ==
    (StructurallyAbsent /\ native # NoNative) =>
        native.status = "MissingPayloadKeysError"

\* C27: a well-formed TTS uplink unpacks to exactly one entry, keyed by
\* end_device_ids.dev_eui, equal to uplink_message.decoded_payload, with the
\* received_at of the first rx_metadata entry as application timestamp.
C27_TTSUnpacked ==
    (app_payload.app = "tts" /\ ~StructurallyAbsent /\ native # NoNative) =>
        LET body == app_payload.body
            dev_eui == body["end_device_ids"]["dev_eui"]
        IN  /\ native.status = "ok"
            /\ DOMAIN native.data = {dev_eui}
            /\ native.data[dev_eui] = body["uplink_message"]["decoded_payload"]
            /\ native.application_timestamp =
                   [str |-> body["uplink_message"]["rx_metadata"][1]["received_at"]]

C27_Witness ==
    /\ app_payload.app = "tts" /\ native.status = "ok"
    /\ Len(app_payload.body["uplink_message"]["rx_metadata"]) = 2
    /\ DOMAIN native.data = {"e1"}
    /\ "co2" \in DOMAIN native.data["e1"] /\ native.data["e1"]["co2"] = 1
    /\ native.application_timestamp = [str |-> "t1"]

\* the lower-cased field map that was given to from_unpack
GivenFields == LowerKeys(native.data[transformer.sensor_id])

\* C28: when the native field map lacks a field the model requires,
\* from_unpack raises a construction error and returns no transformer, so no
\* observation is ever made from a substituted default.
C28_MissingFieldRaises ==
    (transformer # NoTransformer
     /\ Fields(transformer.model) \ DOMAIN GivenFields # {}) =>
        /\ transformer.status = "ValidationError"
        /\ st_observations = << >>

C28_Witness ==
    /\ transformer # NoTransformer
    /\ transformer.model = "netatmo.nws03"
    /\ Fields(transformer.model) \ DOMAIN GivenFields = {"noise"}
    /\ transformer.status = "ValidationError"

\* C29: when the native field map holds a field the model does not declare,
\* from_unpack raises a construction error: the field is never ignored.
C29_ExtraFieldRaises ==
    (transformer # NoTransformer
     /\ DOMAIN GivenFields \ Fields(transformer.model) # {}) =>
        transformer.status = "ValidationError"

\* C30: to_stObservations emits exactly one observation for each
\* NAME_TRANSFORM entry other than the phenomenon-time one, which is never
\* emitted; every phenomenonTime is the phenomenon-time field of the model
\* when it has one, and otherwise the application timestamp of from_unpack.
C30_ObservationsPerEntry ==
    st_observations # << >> =>
        LET entries == NAME_TRANSFORM(transformer.model)
            emitted == {i \in 1..Len(entries) : entries[i][2] # PHENOMENON_TIME}
            streams(d) == {i \in 1..Len(st_observations) :
                              st_observations[i].datastream = d}
        IN  /\ \A i \in emitted :
                   /\ Cardinality(streams(entries[i][2])) = 1
                   /\ \A j \in streams(entries[i][2]) :
                          st_observations[j].result = transformer.fields[entries[i][1]]
            /\ Len(st_observations) = Cardinality(emitted)
            /\ streams(PHENOMENON_TIME) = {}
            /\ \A j \in 1..Len(st_observations) :
                   st_observations[j].phenomenonTime =
                       IF "time_utc" \in Fields(transformer.model)
                       THEN [epoch |-> GivenFields["time_utc"].int]
                       ELSE [iso |-> native.application_timestamp.str]

C30_Witness ==
    /\ Len(st_observations) = 5
    /\ transformer.model = "netatmo.nws03"
    /\ \A j \in 1..5 : st_observations[j].phenomenonTime = [epoch |-> 0]

\* the observations of the model's transform table applied once to the raw
\* fields given to from_unpack
TransformedOnce ==
    to_stObservations(from_unpack(transformer.model,
                                  native.data[transformer.sensor_id],
                                  native.application_timestamp))

\* C31: every call of to_stObservations returns the observations of the
\* transform table applied exactly once to the raw fields, so a second call
\* on the same instance returns a list equal to the first.
C31_TransformOnce ==
    (transformer.status = "ok" /\ transformer.calls > 0) =>
        /\ Len(transformer.returned) = transformer.calls
        /\ \A i \in 1..Len(transformer.returned) :
               transformer.returned[i] = TransformedOnce

\* the uplinks of one AM308L device with the same measured fields, which
\* differ only in the model id the uplink declares for itself
SameMeasurement == {"am308l", "other_model"}

\* C32: the handling of a received payload does not depend on the model id it
\* declares: whichever uplink of the device TTSConnection.retrieve dequeues,
\* it goes on to the same uploads.
C32_ModelFromRegistry ==
    [][\A i \in 1..Len(threads[MQTT]) : \A p \in SameMeasurement :
          ( /\ threads[MQTT][i].alive /\ threads[MQTT][i].pc = "wait"
            /\ threads'[MQTT][i] # threads[MQTT][i]
            /\ hist'.dequeued[MQTT] = Append(hist.dequeued[MQTT], p) )
          => ( /\ threads'[MQTT][i].pc = "upload"
               /\ threads'[MQTT][i].todo = MaxObs )]_vars

\* the sensors of the first n observations the store holds
StoredSensors(n) ==
    {ById("Sensor", ById("Datastream", observations[i]).sensor).name : i \in 1..n}

\* C33: a health report flags an expected sensor as never having delivered
\* data if and only if no observation of that sensor was stored before the
\* report.
C33_FlaggedIffNothingUploaded ==
    hist.health.issued =>
        \A s \in netmon.expected_sensors :
            (s \in hist.health.non_responsive)
                <=> (s \notin StoredSensors(hist.health.stored))

\* C37: whenever a report lists a sensor with a success count, the last-push
\* time it reads for that sensor was set by an upload, never the default 0.
C37_LastPushSet ==
    hist.health.issued =>
        \A k \in DOMAIN hist.health.last_push : hist.health.last_push[k] # 0

\* C40: netatmo_nws03.frost_upload uploads an observation for every reachable
\* station of the payload whose POST is accepted, wherever the station stands
\* relative to an unreachable one.
C40_ReachableUploaded ==
    hist.nws.calls > 0 =>
        \A i \in 1..Len(hist.nws.payload) :
            LET station == hist.nws.payload[i] IN
            (station["reachable"].bool /\ station["_id"].str \notin hist.nws.refused)
                => \E j \in 1..Len(hist.nws.uploaded) :
                       hist.nws.uploaded[j] = station["_id"].str

\* C34: an observation whose upload was refused is kept and tried again: the
\* worker does not go on to the next observation or drop the payload.
C34_FailedUploadKept ==
    [][\A c \in Conns : \A i \in 1..Len(threads[c]) :
          ( /\ threads[c][i].pc = "upload"
            /\ threads'[c][i] # threads[c][i]
            /\ netmon'.push_fail[c] = netmon.push_fail[c] + 1 )
          => ( /\ threads'[c][i].pc = "upload"
               /\ threads'[c][i].cur = threads[c][i].cur
               /\ threads'[c][i].todo = threads[c][i].todo )]_vars

\* C36: the stop flag of a connection is never cleared, and while it is set
\* no worker at the head of its loop, a newly started one included, enters
\* retrieve: it can only leave the loop.
C36_NeverRevived ==
    [][\A c \in Conns :
          stop_event[c] =>
              /\ stop_event'[c]
              /\ \A i \in 1..Len(threads'[c]) :
                     (i > Len(threads[c]) \/ threads[c][i].pc = "top")
                         => threads'[c][i].pc \in {"top", "done"}]_vars

C36_Witness ==
    /\ stop_event[MQTT]
    /\ Len(threads[MQTT]) = 2
    /\ threads[MQTT][2].exit = "stopflag"
    /\ threads[MQTT][2].attempts = 0

C38_RejectedWithinReceived ==
    \A c \in Conns : netmon.rejected_payloads[c] <= netmon.payloads_received[c]

\* C39: for every payload TTSConnection.retrieve takes off the queue, an
\* upload is attempted, or rejected_payloads is incremented, or an exception
\* reaches the worker loop.
C39_NoSilentDrop ==
    [][\A i \in 1..Len(threads[MQTT]) :
          ( /\ threads[MQTT][i].alive /\ threads[MQTT][i].pc = "wait"
            /\ threads'[MQTT][i] # threads[MQTT][i]
            /\ Len(hist'.dequeued[MQTT]) = Len(hist.dequeued[MQTT]) + 1 )
          => \/ threads'[MQTT][i].pc = "upload"
             \/ netmon'.rejected_payloads[MQTT] > netmon.rejected_payloads[MQTT]
             \/ threads'[MQTT][i].pc = "failsleep"]_vars

====
